---- MODULE Spec2Model ----
(***************************************************************************)
(* Roadmap dashboard (src/app.py): the spreadsheet loader, the sidebar     *)
(* filter widgets, the filter pass, the metrics and the chart tables.      *)
(*                                                                         *)
(* Text is a sequence of one-character strings, so that strip, split,      *)
(* replace, isdigit, float() and int() are computed, not assumed.          *)
(* A spreadsheet cell is a tagged record:                                  *)
(*   [t |-> "nan"]                      an empty cell (NaN / NaT)          *)
(*   [t |-> "str", s |-> <<chars>>]     a text cell                        *)
(*   [t |-> "num", n |-> k]             a numeric cell                     *)
(*   [t |-> "date", y, m, d]            a date cell                        *)
(***************************************************************************)
EXTENDS Integers, Sequences, FiniteSets, TLC

VARIABLES
    raw,                  \* the spreadsheet on disk: [file, header, rows]
    pc,                   \* "start", "idle" (script ran to its end), "stopped" (st.stop)
    err,                  \* what st.error showed: "none", "File not found", "Error loading file"
    df,                   \* the cached canonical table: [columns, rows]
    selected_status,      \* the six multiselect widgets' values
    selected_years,
    selected_months,
    selected_group_names,
    selected_dept,
    selected_person,
    selected_group_ids,   \* the ids translated from selected_group_names
    df_filtered,          \* the filtered table of the last script run
    metrics,              \* the three st.metric values of the last run, or none
    df_dept,              \* time by department (chart 1), or none
    df_gantt,             \* rows of the timeline (chart 2), or none
    df_person,            \* time by person and department (chart 3), or none
    snap                  \* history: one earlier pass, [criteria, result], or none

vars == <<raw, pc, err, df, selected_status, selected_years, selected_months,
          selected_group_names, selected_dept, selected_person,
          selected_group_ids, df_filtered, metrics, df_dept, df_gantt,
          df_person, snap>>

----------------------------------------------------------------------------
(* Bounds of the model. *)

\* most rows of a spreadsheet in Init
MaxRows == 3
\* most options a user has deselected, over all widgets, at any time
MaxDeselected == 2
\* longest enumerated text of a group cell in InitGroup
MaxGroupLen == 4
\* longest enumerated text of a status cell in InitStatus
MaxStatusLen == 5

----------------------------------------------------------------------------
(* Text. *)

WhiteSpace == {" ", "\t"}

Digits == <<"0", "1", "2", "3", "4", "5", "6", "7", "8", "9">>

DigitSet == {Digits[i] : i \in 1..Len(Digits)}

UpperCase == <<"A","B","C","D","E","F","G","H","I","J","K","L","M",
               "N","O","P","Q","R","S","T","U","V","W","X","Y","Z">>

LowerCase == <<"a","b","c","d","e","f","g","h","i","j","k","l","m",
               "n","o","p","q","r","s","t","u","v","w","x","y","z">>

\* str.lower() on one character
LowerChar(c) ==
    IF \E i \in 1..Len(UpperCase) : UpperCase[i] = c
    THEN LowerCase[CHOOSE i \in 1..Len(UpperCase) : UpperCase[i] = c]
    ELSE c

\* str.lower()
Lower(s) == [i \in 1..Len(s) |-> LowerChar(s[i])]

\* str.strip(): drop leading and trailing whitespace
Strip(s) ==
    LET keep == {i \in 1..Len(s) : s[i] \notin WhiteSpace}
    IN  IF keep = {} THEN <<>>
        ELSE LET lo == CHOOSE i \in keep : \A j \in keep : i <= j
                 hi == CHOOSE i \in keep : \A j \in keep : j <= i
             IN  SubSeq(s, lo, hi)

\* str.replace(c, ''): every occurrence of the character c removed
RemoveChar(s, c) == SelectSeq(s, LAMBDA ch : ch # c)

\* str.isdigit(): non-empty and digits only
IsDigit(s) == Len(s) > 0 /\ \A i \in 1..Len(s) : s[i] \in DigitSet

\* str.split(sep) on a one-character separator: always at least one token
RECURSIVE Split(_, _)
Split(s, sep) ==
    IF \A i \in 1..Len(s) : s[i] # sep THEN <<s>>
    ELSE LET k == CHOOSE i \in 1..Len(s) :
                      s[i] = sep /\ \A j \in 1..(i - 1) : s[j] # sep
         IN  <<SubSeq(s, 1, k - 1)>> \o Split(SubSeq(s, k + 1, Len(s)), sep)

\* sub occurs in s at position i
MatchAt(s, sub, i) == \A j \in 1..Len(sub) : s[i + j - 1] = sub[j]

\* sub in s
Contains(s, sub) == \E i \in 1..(Len(s) - Len(sub) + 1) : MatchAt(s, sub, i)

\* str.replace(sub, ''): every non-overlapping occurrence, left to right
RECURSIVE RemoveSub(_, _)
RemoveSub(s, sub) ==
    IF Len(sub) = 0 \/ ~Contains(s, sub) THEN s
    ELSE LET k == CHOOSE i \in 1..(Len(s) - Len(sub) + 1) :
                      /\ MatchAt(s, sub, i)
                      /\ \A j \in 1..(i - 1) : ~MatchAt(s, sub, j)
         IN  SubSeq(s, 1, k - 1) \o RemoveSub(SubSeq(s, k + Len(sub), Len(s)), sub)

DigitVal(c) == (CHOOSE i \in 1..Len(Digits) : Digits[i] = c) - 1

\* the value of a string of digits (0 for the empty string)
RECURSIVE DigitsVal(_)
DigitsVal(s) ==
    IF Len(s) = 0 THEN 0
    ELSE 10 * DigitsVal(SubSeq(s, 1, Len(s) - 1)) + DigitVal(s[Len(s)])

\* str(n) of a non-negative integer
RECURSIVE IntToStr(_)
IntToStr(n) ==
    IF n < 10 THEN <<Digits[n + 1]>>
    ELSE IntToStr(n \div 10) \o <<Digits[(n % 10) + 1]>>

\* float(s) succeeds: surrounding whitespace, an optional sign, digits with at
\* most one decimal point and at least one digit
FloatOk(s) ==
    LET c == Strip(s)
        u == IF Len(c) > 0 /\ c[1] \in {"+", "-"} THEN Tail(c) ELSE c
        dots == {i \in 1..Len(u) : u[i] = "."}
    IN  /\ \A i \in 1..Len(u) : u[i] \in DigitSet \cup {"."}
        /\ Cardinality(dots) <= 1
        /\ \E i \in 1..Len(u) : u[i] \in DigitSet

\* int(float(s)) where float(s) succeeds: truncation toward zero
IntOfFloat(s) ==
    LET c == Strip(s)
        neg == Len(c) > 0 /\ c[1] = "-"
        u == IF Len(c) > 0 /\ c[1] \in {"+", "-"} THEN Tail(c) ELSE c
        whole == IF \E i \in 1..Len(u) : u[i] = "."
                 THEN SubSeq(u, 1, (CHOOSE i \in 1..Len(u) : u[i] = ".") - 1)
                 ELSE u
    IN  IF neg THEN 0 - DigitsVal(whole) ELSE DigitsVal(whole)

\* int(s) succeeds: surrounding whitespace, an optional sign, digits only
IntOk(s) ==
    LET c == Strip(s)
        u == IF Len(c) > 0 /\ c[1] \in {"+", "-"} THEN Tail(c) ELSE c
    IN  IsDigit(u)

\* int(s) where it succeeds
IntOf(s) ==
    LET c == Strip(s)
        u == IF c[1] \in {"+", "-"} THEN Tail(c) ELSE c
    IN  IF c[1] = "-" THEN 0 - DigitsVal(u) ELSE DigitsVal(u)

----------------------------------------------------------------------------
(* Column names (after normalisation) and cells. *)

c_status == <<"s","t","a","t","u","s">>
c_department == <<"d","e","p","a","r","t","m","e","n","t">>
c_person == <<"p","e","r","s","o","n">>
c_subject == <<"s","u","b","j","e","c","t">>
c_comment == <<"c","o","m","m","e","n","t">>
c_time == <<"t","i","m","e">>
c_group == <<"g","r","o","u","p">>
c_start_date == <<"s","t","a","r","t"," ","d","a","t","e">>
c_start_date_u == <<"s","t","a","r","t","_","d","a","t","e">>
c_end_date == <<"e","n","d"," ","d","a","t","e">>
c_end_date_u == <<"e","n","d","_","d","a","t","e">>
c_group_list == <<"g","r","o","u","p","_","l","i","s","t">>
c_Year == <<"Y","e","a","r">>
c_Month == <<"M","o","n","t","h">>
c_month_num == <<"m","o","n","t","h","_","n","u","m">>

s_nan == <<"n","a","n">>
s_Ongoing == <<"O","n","g","o","i","n","g">>

NaN == [t |-> "nan"]
Str(s) == [t |-> "str", s |-> s]
Num(n) == [t |-> "num", n |-> n]
Date(y, m, d) == [t |-> "date", y |-> y, m |-> m, d |-> d]
List(l) == [t |-> "list", l |-> l]

None == [t |-> "none"]

\* Series.isna()
IsNa(cell) == cell.t = "nan"

\* df[c] = cells: a table with column c set to the given cells, one per row
AssignColumn(tbl, c, cells) ==
    [columns |-> tbl.columns \cup {c},
     rows |-> [i \in 1..Len(tbl.rows) |->
                 [k \in tbl.columns \cup {c} |->
                     IF k = c THEN cells[i] ELSE tbl.rows[i][k]]]]

----------------------------------------------------------------------------
(* load_data. *)

text_cols == {c_status, c_department, c_person, c_subject, c_comment}

date_cols == {c_start_date, c_end_date, c_start_date_u, c_end_date_u}

MonthNames == <<
    <<"J","a","n","u","a","r","y">>,
    <<"F","e","b","r","u","a","r","y">>,
    <<"M","a","r","c","h">>,
    <<"A","p","r","i","l">>,
    <<"M","a","y">>,
    <<"J","u","n","e">>,
    <<"J","u","l","y">>,
    <<"A","u","g","u","s","t">>,
    <<"S","e","p","t","e","m","b","e","r">>,
    <<"O","c","t","o","b","e","r">>,
    <<"N","o","v","e","m","b","e","r">>,
    <<"D","e","c","e","m","b","e","r">> >>

\* df.columns.str.strip().str.lower()
NormalizeColumn(h) == Lower(Strip(h))

\* pd.read_excel, then the column names cleaned
ReadAndCleanColumns(src) ==
    LET cols == {NormalizeColumn(h) : h \in src.header}
        rawOf == [c \in cols |-> CHOOSE h \in src.header : NormalizeColumn(h) = c]
    IN  [columns |-> cols,
         rows |-> [i \in 1..Len(src.rows) |-> [c \in cols |-> src.rows[i][rawOf[c]]]]]

\* Series.fillna('Ongoing') on one cell
FillNaOngoing(cell) == IF IsNa(cell) THEN Str(s_Ongoing) ELSE cell

\* Series.astype(str) on one cell: the text of the cell
AsStr(cell) ==
    CASE cell.t = "nan" -> s_nan
      [] cell.t = "str" -> cell.s
      [] cell.t = "num" -> IF cell.n < 0 THEN <<"-">> \o IntToStr(0 - cell.n)
                           ELSE IntToStr(cell.n)

\* Series.replace('nan', 'Ongoing') on one text: whole-value match
ReplaceNanOngoing(s) == IF s = s_nan THEN s_Ongoing ELSE s

\* steps 3 and 4 on the status cell
CleanStatus(cell) == Str(ReplaceNanOngoing(Strip(AsStr(FillNaOngoing(cell)))))

\* step 4 on a cell of another text column
CleanText(cell) == Str(Strip(AsStr(cell)))

DaysIn(y, m) ==
    IF m \in {4, 6, 9, 11} THEN 30
    ELSE IF m = 2
         THEN (IF y % 4 = 0 /\ (y % 100 # 0 \/ y % 400 = 0) THEN 29 ELSE 28)
         ELSE 31

ValidDate(y, m, d) == y >= 1 /\ m \in 1..12 /\ d >= 1 /\ d <= DaysIn(y, m)

\* pd.to_datetime(dayfirst=True, errors='coerce') on one cell. A text is read as
\* day/month/year; whatever does not parse becomes NaT.
ToDatetime(cell) ==
    CASE cell.t = "date" -> cell
      [] cell.t = "nan" -> NaN
      [] cell.t = "str" ->
            LET p == Split(Strip(cell.s), "/")
            IN  IF Len(p) = 3 /\ \A i \in 1..3 : IsDigit(p[i])
                THEN LET d == DigitsVal(p[1])
                         m == DigitsVal(p[2])
                         y == DigitsVal(p[3])
                     IN  IF ValidDate(y, m, d) THEN Date(y, m, d) ELSE NaN
                ELSE NaN
      [] OTHER -> NaN

\* the filter of the list comprehension: i.strip().replace('.', '').isdigit()
TokenKept(tok) == IsDigit(RemoveChar(Strip(tok), "."))

\* the tokens of a group cell that the comprehension converts
KeptTokens(cell) == SelectSeq(Split(AsStr(cell), ";"), TokenKept)

\* int(float(i)) raises ValueError on some kept token
GroupListRaises(cell) ==
    \E i \in 1..Len(KeptTokens(cell)) : ~FloatOk(KeptTokens(cell)[i])

\* the list the comprehension builds when nothing raises
GroupList(cell) ==
    LET k == KeptTokens(cell)
    IN  [i \in 1..Len(k) |-> IntOfFloat(k[i])]

start_col(columns) ==
    IF c_start_date \in columns THEN c_start_date ELSE c_start_date_u

end_col(columns) ==
    IF c_end_date \in columns THEN c_end_date ELSE c_end_date_u

\* steps 3 and 4: the text columns
CleanTextColumns(tbl) ==
    [columns |-> tbl.columns,
     rows |-> [i \in 1..Len(tbl.rows) |->
        [c \in tbl.columns |->
            IF c = c_status THEN CleanStatus(tbl.rows[i][c])
            ELSE IF c \in text_cols THEN CleanText(tbl.rows[i][c])
            ELSE tbl.rows[i][c]]]]

\* step 5: the date columns
ConvertDateColumns(tbl) ==
    [columns |-> tbl.columns,
     rows |-> [i \in 1..Len(tbl.rows) |->
        [c \in tbl.columns |->
            IF c \in date_cols THEN ToDatetime(tbl.rows[i][c])
            ELSE tbl.rows[i][c]]]]

\* step 6 raises: a group token float() rejects, or the empty list assigned as
\* a column of a table that has rows (pandas: length of values does not match
\* length of index)
GroupStepRaises(tbl) ==
    IF c_group \in tbl.columns
    THEN \E i \in 1..Len(tbl.rows) : GroupListRaises(tbl.rows[i][c_group])
    ELSE Len(tbl.rows) # 0

\* step 6 when it does not raise
AddGroupList(tbl) ==
    IF c_group \in tbl.columns
    THEN AssignColumn(tbl, c_group_list,
            [i \in 1..Len(tbl.rows) |-> List(GroupList(tbl.rows[i][c_group]))])
    ELSE AssignColumn(tbl, c_group_list, [i \in 1..Len(tbl.rows) |-> List(<<>>)])

\* step 7: Year, Month and month_num from the start date
AddYearMonth(tbl) ==
    LET sc == start_col(tbl.columns)
        n == Len(tbl.rows)
        start == [i \in 1..n |-> tbl.rows[i][sc]]
    IN  IF sc \in tbl.columns
        THEN AssignColumn(
               AssignColumn(
                 AssignColumn(tbl, c_Year,
                    [i \in 1..n |-> IF IsNa(start[i]) THEN NaN ELSE Num(start[i].y)]),
                 c_Month,
                 [i \in 1..n |-> IF IsNa(start[i]) THEN NaN
                                 ELSE Str(MonthNames[start[i].m])]),
               c_month_num,
               [i \in 1..n |-> IF IsNa(start[i]) THEN NaN ELSE Num(start[i].m)])
        ELSE tbl

\* load_data: [ok |-> TRUE, df |-> table], or what st.error shows before st.stop
load_data(src) ==
    IF ~src.file THEN [ok |-> FALSE, err |-> "File not found"]
    ELSE LET t5 == ConvertDateColumns(CleanTextColumns(ReadAndCleanColumns(src)))
         IN  IF GroupStepRaises(t5)
             THEN [ok |-> FALSE, err |-> "Error loading file"]
             ELSE [ok |-> TRUE, df |-> AddYearMonth(AddGroupList(t5))]

----------------------------------------------------------------------------
(* The sidebar: the options of each multiselect and the group labels. *)

s_Group == <<"G","r","o","u","p"," ">>

GROUP_MAPPING == [gid \in 0..4 |->
    CASE gid = 0 -> <<"0"," ","-"," ","F","o","r","m","a","l","i","z","e"," ","a"," ","R","o","a","d","m","a","p"," ","(","S","o","f","t"," ","s","k","i","l","l","s",")">>
      [] gid = 1 -> <<"1"," ","-"," ","D","e","v","e","l","o","p"," ","I","n","t","e","r","n","a","l"," ","C","a","p","a","c","i","t","y"," ","(","C","o","n","t","r","i","b","u","t","i","o","n"," ","t","o"," ","L","I","S","E","R",")">>
      [] gid = 2 -> <<"2"," ","-"," ","A","d","v","i","s","e"," ","D","a","t","a"," ","S","c","i","e","n","c","e"," ","S","o","l","u","t","i","o","n","s"," ","(","T","e","c","h","n","i","c","a","l"," ","E","x","c","e","l","l","e","n","c","e",")">>
      [] gid = 3 -> <<"3"," ","-"," ","P","u","b","l","i","s","h"," ","R","e","s","e","a","r","c","h"," ","i","n"," ","A","I"," ","(","S","c","i","e","n","t","i","f","i","c"," ","E","x","c","e","l","l","e","n","c","e",")">>
      [] gid = 4 -> <<"4"," ","-"," ","F","o","s","t","e","r"," ","S","t","r","a","t","e","g","i","c"," ","C","o","l","l","a","b","o","r","a","t","i","o","n","s"," ","(","S","o","c","i","e","t","a","l"," ","I","m","p","a","c","t",")">>]

\* the values of column c over the rows of a table
ColumnValues(tbl, c) == {tbl.rows[i][c] : i \in 1..Len(tbl.rows)}

\* df['status'].unique().tolist(): the options of the status widget
status_options(d) ==
    IF c_status \in d.columns
    THEN {v.s : v \in ColumnValues(d, c_status)} ELSE {}

\* sorted([int(x) for x in df['Year'].dropna().unique()])
unique_years(d) ==
    IF c_Year \in d.columns
    THEN {v.n : v \in {w \in ColumnValues(d, c_Year) : ~IsNa(w)}} ELSE {}

\* df.sort_values('month_num')['Month'].dropna().unique()
unique_months(d) ==
    IF c_Month \in d.columns
    THEN {v.s : v \in {w \in ColumnValues(d, c_Month) : ~IsNa(w)}} ELSE {}

\* df['department'].unique().tolist()
dept_options(d) ==
    IF c_department \in d.columns
    THEN {v.s : v \in ColumnValues(d, c_department)} ELSE {}

\* df['person'].unique().tolist()
person_options(d) ==
    IF c_person \in d.columns
    THEN {v.s : v \in ColumnValues(d, c_person)} ELSE {}

\* all_ids: every id of every row's group_list
all_ids(d) ==
    IF c_group_list \in d.columns
    THEN UNION {{d.rows[i][c_group_list].l[j] :
                    j \in 1..Len(d.rows[i][c_group_list].l)} :
                i \in 1..Len(d.rows)}
    ELSE {}

\* sorted(S) of a finite set of integers
RECURSIVE Sorted(_)
Sorted(S) ==
    IF S = {} THEN <<>>
    ELSE LET lo == CHOOSE x \in S : \A y \in S : x <= y
         IN  <<lo>> \o Sorted(S \ {lo})

\* GROUP_MAPPING.get(gid, f"Group {gid}")
GroupLabel(gid) ==
    IF gid \in DOMAIN GROUP_MAPPING THEN GROUP_MAPPING[gid]
    ELSE s_Group \o IntToStr(gid)

\* group_options: the labels of sorted(all_ids)
group_options(d) ==
    LET ids == Sorted(all_ids(d))
    IN  [i \in 1..Len(ids) |-> GroupLabel(ids[i])]

\* the translation without the "Group <id>" branch
IdsOfNameFixedOnly(name) ==
    SelectSeq(Sorted(DOMAIN GROUP_MAPPING), LAMBDA gid : GROUP_MAPPING[gid] = name)

\* the ids one selected name adds to selected_group_ids: every key of
\* GROUP_MAPPING whose label is the name, in key order, and then, when
\* "Group " occurs in the name, the int() of the name with "Group " removed,
\* unless int() raises
IdsOfName(name) ==
    LET fixed == SelectSeq(Sorted(DOMAIN GROUP_MAPPING),
                           LAMBDA gid : GROUP_MAPPING[gid] = name)
        rest == RemoveSub(name, s_Group)
    IN  IF Contains(name, s_Group) /\ IntOk(rest)
        THEN fixed \o <<IntOf(rest)>>
        ELSE fixed

\* the loop over selected_group_names
RECURSIVE TranslateNames(_)
TranslateNames(names) ==
    IF Len(names) = 0 THEN <<>>
    ELSE IdsOfName(Head(names)) \o TranslateNames(Tail(names))

\* the members of a sequence
Range(q) == {q[i] : i \in 1..Len(q)}

----------------------------------------------------------------------------
(* The filter pass. *)

\* Series.isin(values) on one cell: a null cell is in no list of values
IsIn(cell, values) ==
    CASE cell.t = "str" -> cell.s \in values
      [] cell.t = "num" -> cell.n \in values
      [] OTHER -> FALSE

\* has_overlap with all() in place of any(): every id of the row selected
has_overlap_all(row_groups, ids) ==
    \A i \in 1..Len(row_groups) : row_groups[i] \in Range(ids)

\* has_overlap(row_groups)
has_overlap(row_groups, ids) ==
    \E i \in 1..Len(row_groups) : row_groups[i] \in Range(ids)

\* a pass that narrows the table of the pass before instead of copying df
FilterSourcePrevious(canonical, previous) == previous

\* the table a filter pass starts from: df.copy()
FilterSource(canonical, previous) == canonical

\* a filter block without the `and <selection>` test
FilterStepStrict(tbl, columns, c, values) ==
    IF c \in columns
    THEN [columns |-> tbl.columns,
          rows |-> SelectSeq(tbl.rows, LAMBDA r : IsIn(r[c], values))]
    ELSE tbl

\* one `if <column> in df.columns and <selection>:` block
FilterStep(tbl, columns, c, values) ==
    IF c \in columns /\ values # {}
    THEN [columns |-> tbl.columns,
          rows |-> SelectSeq(tbl.rows, LAMBDA r : IsIn(r[c], values))]
    ELSE tbl

\* the group block
GroupStep(tbl, columns, ids) ==
    IF c_group_list \in columns /\ Len(ids) # 0
    THEN [columns |-> tbl.columns,
          rows |-> SelectSeq(tbl.rows, LAMBDA r : has_overlap(r[c_group_list].l, ids))]
    ELSE tbl

\* the filter criteria of one pass
Criteria(st, ys, ms, dp, ps, ids) ==
    [status |-> st, years |-> ys, months |-> ms, dept |-> dp, person |-> ps,
     group_ids |-> ids]

\* APPLY FILTERS: the six blocks in the order of the script
ApplyFilters(d, previous, cr) ==
    LET f0 == FilterSource(d, previous)
        f1 == FilterStep(f0, d.columns, c_status, cr.status)
        f2 == FilterStep(f1, d.columns, c_Year, cr.years)
        f3 == FilterStep(f2, d.columns, c_Month, cr.months)
        f4 == FilterStep(f3, d.columns, c_department, cr.dept)
        f5 == FilterStep(f4, d.columns, c_person, cr.person)
    IN  GroupStep(f5, d.columns, cr.group_ids)

----------------------------------------------------------------------------
(* Metrics and chart tables. *)

\* Series.sum(): the sum of the non-null cells, 0 when there is none
RECURSIVE SumCells(_)
SumCells(cells) ==
    IF Len(cells) = 0 THEN 0
    ELSE (IF IsNa(Head(cells)) THEN 0 ELSE Head(cells).n) + SumCells(Tail(cells))

\* Series.count(): the number of non-null cells
CountCells(cells) == Len(SelectSeq(cells, LAMBDA c : ~IsNa(c)))

\* the cells of column c, in row order
Column(tbl, c) == [i \in 1..Len(tbl.rows) |-> tbl.rows[i][c]]

\* a quotient num/den, kept exact
Ratio(num, den) == [t |-> "ratio", num |-> num, den |-> den]

\* Series.mean(): the sum over the count of the non-null cells, NaN when
\* there is none
Mean(cells) ==
    IF CountCells(cells) = 0 THEN NaN
    ELSE Ratio(SumCells(cells), CountCells(cells))

\* DataFrame.empty
Empty(tbl) == Len(tbl.rows) = 0 \/ tbl.columns = {}

\* the Metrics block without the `if not df_filtered.empty else 0`
MetricsNoEmptyGuard(f) ==
    IF c_time \in f.columns
    THEN [t |-> "metrics",
          count |-> Len(f.rows),
          total_hours |-> SumCells(Column(f, c_time)),
          avg_hours |-> Mean(Column(f, c_time))]
    ELSE None

\* the Metrics block: nothing is shown when the table has no time column
Metrics(f) ==
    IF c_time \in f.columns
    THEN [t |-> "metrics",
          count |-> Len(f.rows),
          total_hours |-> SumCells(Column(f, c_time)),
          avg_hours |-> IF ~Empty(f) THEN Mean(Column(f, c_time)) ELSE Ratio(0, 1)]
    ELSE None

\* the rows of a table whose column c holds v
RowsWith(tbl, c, v) == SelectSeq(tbl.rows, LAMBDA r : r[c] = v)

\* Graph 1: groupby('department')['time'].sum(), one entry per department
DeptChart(f) ==
    IF c_department \in f.columns /\ c_time \in f.columns
    THEN [t |-> "table",
          by |-> [v \in ColumnValues(f, c_department) |->
                    SumCells([i \in 1..Len(RowsWith(f, c_department, v)) |->
                                RowsWith(f, c_department, v)[i][c_time]])]]
    ELSE None

\* Graph 2: dropna(subset=[start_col, end_col]), the rows handed to
\* px.timeline (the chart library's own handling of them is left out)
GanttChart(f) ==
    LET sc == start_col(f.columns)
        ec == end_col(f.columns)
    IN  IF sc \in f.columns /\ ec \in f.columns /\ c_subject \in f.columns
        THEN [t |-> "table",
              rows |-> SelectSeq(f.rows, LAMBDA r : ~IsNa(r[sc]) /\ ~IsNa(r[ec]))]
        ELSE None

\* Graph 3: groupby(['person', 'department'])['time'].sum(); the block is
\* guarded by person and time only, so the groupby raises KeyError when the
\* table has no department column. The order of the bars is left out.
PersonChart(f) ==
    IF c_person \in f.columns /\ c_time \in f.columns
    THEN IF c_department \notin f.columns THEN [t |-> "raised"]
         ELSE [t |-> "table",
               by |-> [k \in {<<f.rows[i][c_person], f.rows[i][c_department]>> :
                                i \in 1..Len(f.rows)} |->
                         SumCells(Column(
                            [columns |-> f.columns,
                             rows |-> SelectSeq(f.rows,
                                LAMBDA r : <<r[c_person], r[c_department]>> = k)],
                            c_time))]]
    ELSE None

----------------------------------------------------------------------------
(* One run of the script. Streamlit runs the whole script on every widget   *)
(* interaction; load_data is cached, so only the first run reads the file.  *)

\* options of all widgets that are not selected
Deselected(d) ==
    Cardinality(status_options(d) \ selected_status)
    + Cardinality(unique_years(d) \ selected_years)
    + Cardinality(unique_months(d) \ selected_months)
    + Cardinality(Range(group_options(d)) \ Range(selected_group_names))
    + Cardinality(dept_options(d) \ selected_dept)
    + Cardinality(person_options(d) \ selected_person)

\* a click on option v of a widget: selects it, or deselects it
Toggle(selected, v) ==
    IF v \in selected THEN selected \ {v} ELSE selected \cup {v}

\* the user may click option v: at most MaxDeselected options are off
MayToggle(selected, v) == v \notin selected \/ Deselected(df) < MaxDeselected

\* everything below the sidebar: the filter pass, the metrics and the charts.
\* previous is the filtered table of the run before (the loaded table on the
\* first run).
Render(d, previous, st, ys, ms, names, dp, ps) ==
    /\ selected_status' = st
    /\ selected_years' = ys
    /\ selected_months' = ms
    /\ selected_group_names' = names
    /\ selected_dept' = dp
    /\ selected_person' = ps
    /\ selected_group_ids' = TranslateNames(names)
    /\ df_filtered' = ApplyFilters(d, previous,
                         Criteria(st, ys, ms, dp, ps, selected_group_ids'))
    /\ metrics' = Metrics(df_filtered')
    /\ df_dept' = DeptChart(df_filtered')
    /\ df_gantt' = GanttChart(df_filtered')
    /\ df_person' = PersonChart(df_filtered')
    /\ err' = IF df_person'.t = "raised" THEN "KeyError" ELSE "none"
    /\ snap' = IF snap.t = "pass"
                   /\ snap.criteria # Criteria(st, ys, ms, dp, ps, selected_group_ids')
                THEN [snap EXCEPT !.other = TRUE]
                ELSE snap

\* the first run: load_data reads the file; on an exception st.error and
\* st.stop end the run, else every widget starts with all its options
FirstRun ==
    /\ pc = "start"
    /\ IF load_data(raw).ok
       THEN /\ df' = load_data(raw).df
            /\ pc' = "idle"
            /\ Render(df', df', status_options(df'), unique_years(df'),
                      unique_months(df'), group_options(df'),
                      dept_options(df'), person_options(df'))
       ELSE /\ pc' = "stopped"
            /\ err' = load_data(raw).err
            /\ UNCHANGED <<df, selected_status, selected_years,
                           selected_months, selected_group_names,
                           selected_dept, selected_person,
                           selected_group_ids, df_filtered, metrics,
                           df_dept, df_gantt, df_person, snap>>
    /\ UNCHANGED raw

\* a click in the status multiselect, and the rerun it triggers
SelectStatus ==
    /\ pc = "idle"
    /\ \E v \in status_options(df) :
          /\ MayToggle(selected_status, v)
          /\ Render(df, df_filtered, Toggle(selected_status, v), selected_years,
                    selected_months, selected_group_names, selected_dept,
                    selected_person)
    /\ UNCHANGED <<raw, pc, df>>

\* a click in the year multiselect
SelectYear ==
    /\ pc = "idle"
    /\ \E v \in unique_years(df) :
          /\ MayToggle(selected_years, v)
          /\ Render(df, df_filtered, selected_status, Toggle(selected_years, v),
                    selected_months, selected_group_names, selected_dept,
                    selected_person)
    /\ UNCHANGED <<raw, pc, df>>

\* a click in the month multiselect
SelectMonth ==
    /\ pc = "idle"
    /\ \E v \in unique_months(df) :
          /\ MayToggle(selected_months, v)
          /\ Render(df, df_filtered, selected_status, selected_years,
                    Toggle(selected_months, v), selected_group_names,
                    selected_dept, selected_person)
    /\ UNCHANGED <<raw, pc, df>>

\* a click in the group multiselect: the selected labels, in option order
SelectGroup ==
    /\ pc = "idle"
    /\ \E v \in Range(group_options(df)) :
          /\ MayToggle(Range(selected_group_names), v)
          /\ Render(df, df_filtered, selected_status, selected_years,
                    selected_months,
                    SelectSeq(group_options(df),
                       LAMBDA n : n \in Toggle(Range(selected_group_names), v)),
                    selected_dept, selected_person)
    /\ UNCHANGED <<raw, pc, df>>

\* a click in the department multiselect
SelectDept ==
    /\ pc = "idle"
    /\ \E v \in dept_options(df) :
          /\ MayToggle(selected_dept, v)
          /\ Render(df, df_filtered, selected_status, selected_years,
                    selected_months, selected_group_names,
                    Toggle(selected_dept, v), selected_person)
    /\ UNCHANGED <<raw, pc, df>>

\* a click in the person multiselect
SelectPerson ==
    /\ pc = "idle"
    /\ \E v \in person_options(df) :
          /\ MayToggle(selected_person, v)
          /\ Render(df, df_filtered, selected_status, selected_years,
                    selected_months, selected_group_names, selected_dept,
                    Toggle(selected_person, v))
    /\ UNCHANGED <<raw, pc, df>>

\* a click on the "View Raw Data" expander, which exists when the last run
\* reached the end of the script: a rerun with the same selections
ToggleExpander ==
    /\ pc = "idle"
    /\ err = "none"
    /\ Render(df, df_filtered, selected_status, selected_years, selected_months,
              selected_group_names, selected_dept, selected_person)
    /\ UNCHANGED <<raw, pc, df>>

\* the criteria of the current pass
CurrentCriteria ==
    Criteria(selected_status, selected_years, selected_months, selected_dept,
             selected_person, selected_group_ids)

\* history only: remember the current pass, once; other records whether a
\* pass with other criteria ran since
TakeSnapshot ==
    /\ pc = "idle"
    /\ snap = None
    /\ snap' = [t |-> "pass", criteria |-> CurrentCriteria,
                result |-> df_filtered, other |-> FALSE]
    /\ UNCHANGED <<raw, pc, err, df, selected_status, selected_years,
                   selected_months, selected_group_names, selected_dept,
                   selected_person, selected_group_ids, df_filtered, metrics,
                   df_dept, df_gantt, df_person>>

----------------------------------------------------------------------------
(* The spreadsheets of the initial states. *)

h_Status == <<"S","t","a","t","u","s"," ">>
h_Department == <<"D","e","p","a","r","t","m","e","n","t">>
h_Person == <<"P","e","r","s","o","n">>
h_Subject == <<"S","u","b","j","e","c","t">>
h_Comment == <<"c","o","m","m","e","n","t">>
h_Time == <<" ","T","i","m","e">>
h_Group == <<"G","r","o","u","p">>
h_StartDate == <<"S","t","a","r","t"," ","D","a","t","e">>
h_EndDate == <<"E","n","d"," ","D","a","t","e">>
h_start_date == <<"s","t","a","r","t","_","d","a","t","e">>
h_end_date == <<"e","n","d","_","d","a","t","e">>

AllHeaders == {h_Status, h_Department, h_Person, h_Subject, h_Comment, h_Time,
               h_Group, h_StartDate, h_EndDate}

\* the header rows: every column, the underscore date names, one column missing
Headers ==
    {AllHeaders,
     (AllHeaders \ {h_StartDate, h_EndDate}) \cup {h_start_date, h_end_date}}
    \cup {AllHeaders \ {h} : h \in {h_Status, h_Department, h_Person, h_Time,
                                     h_Group, h_StartDate}}

\* a record of the sheet, by field
SheetRow(status, department, person, subject, time, group, start, end) ==
    [c \in {c_status, c_department, c_person, c_subject, c_comment, c_time,
            c_group, c_start_date, c_end_date, c_start_date_u, c_end_date_u} |->
        CASE c = c_status -> status
          [] c = c_department -> department
          [] c = c_person -> person
          [] c = c_subject -> subject
          [] c = c_comment -> NaN
          [] c = c_time -> time
          [] c = c_group -> group
          [] c \in {c_start_date, c_start_date_u} -> start
          [] c \in {c_end_date, c_end_date_u} -> end]

Row1 == SheetRow(Str(<<"D","o","n","e">>), Str(<<"A">>), Str(<<"A","n","n">>),
                 Str(<<"S","1">>), Num(10), Str(<<"0",";","3">>),
                 Date(2024, 1, 5), Date(2024, 2, 1))

Row2 == SheetRow(NaN, Str(<<"B">>), Str(<<"B","o","b"," ">>),
                 Str(<<"S","2">>), Num(5), Str(<<"1",";","2",".","0",";","x">>),
                 Str(<<"n","o","t","-","a","-","d","a","t","e">>), Date(2024, 3, 1))

Row3 == SheetRow(Str(<<"D","o","n","e"," ">>), Str(<<"A">>), Str(<<"A","n","n">>),
                 Str(<<"S","3">>), NaN, NaN,
                 Str(<<"5","/","3","/","2","0","2","5">>), NaN)

Row4 == SheetRow(Str(<<" ","n","a","n">>), Str(<<"B">>), Str(<<"A","n","n">>),
                 Str(<<"S","4">>), Num(7), Str(<<"1","2">>),
                 Date(2024, 3, 9), Date(2024, 4, 1))

SheetRows == <<Row1, Row2, Row3, Row4>>

\* the sheets of lo to hi records drawn from SheetRows, one per multiset of
\* records (the records of a sheet are listed in the order of SheetRows)
SheetsOf(lo, hi) ==
    {[i \in 1..Len(q) |-> SheetRows[q[i]]] :
        q \in {p \in UNION {[1..n -> 1..Len(SheetRows)] : n \in lo..hi} :
                  \A i \in 1..(Len(p) - 1) : p[i] <= p[i + 1]}}

\* the file with header row H and the given records
Sheet(H, rows) ==
    LET field == [h \in H |-> NormalizeColumn(h)]
    IN  [file |-> TRUE, header |-> H,
         rows |-> [i \in 1..Len(rows) |-> [h \in H |-> rows[i][field[h]]]]]

\* no file at the path
NoFile == [file |-> FALSE, header |-> {}, rows |-> <<>>]

Start ==
    /\ pc = "start"
    /\ err = "none"
    /\ df = None
    /\ selected_status = {}
    /\ selected_years = {}
    /\ selected_months = {}
    /\ selected_group_names = <<>>
    /\ selected_dept = {}
    /\ selected_person = {}
    /\ selected_group_ids = <<>>
    /\ df_filtered = None
    /\ metrics = None
    /\ df_dept = None
    /\ df_gantt = None
    /\ df_person = None
    /\ snap = None

Init ==
    /\ raw \in {NoFile} \cup {Sheet(H, rows) : H \in Headers,
                                               rows \in SheetsOf(0, MaxRows)}
    /\ Start

Next ==
    \/ FirstRun
    \/ SelectStatus
    \/ SelectYear
    \/ SelectMonth
    \/ SelectGroup
    \/ SelectDept
    \/ SelectPerson
    \/ ToggleExpander

Spec == Init /\ [][Next]_vars

\* the passes of one session, with the history of one earlier pass
HistSheets == {<<Row1, Row3>>, <<Row2, Row4>>}

InitHist ==
    /\ raw \in {Sheet(AllHeaders, rows) : rows \in HistSheets}
    /\ Start

NextHist ==
    \/ Next
    \/ TakeSnapshot

SpecHist == InitHist /\ [][NextHist]_vars

\* the texts of length lo to hi over the characters of A
TextsOf(A, lo, hi) == UNION {[1..n -> A] : n \in lo..hi}

\* a sheet of one record
OneRecord(status, group) ==
    Sheet(AllHeaders,
          <<SheetRow(status, Str(<<"A">>), Str(<<"A","n","n">>), Str(<<"S","1">>),
                     Num(10), group, Date(2024, 1, 5), Date(2024, 2, 1))>>)

\* group cells: the empty cell, the examples, and every short text over
\* digits, the decimal point, the separator, a letter and a space
GroupChars == {"1", "5", ".", ";", "x", " "}

GroupExamples == {<<"1",";","2",".","0",";","x">>, <<"0",";","3">>,
                  <<"1",".","2",".","3">>, <<"3",";","5",";","1","2">>}

InitGroup ==
    /\ raw \in {OneRecord(Str(<<"D","o","n","e">>), g) :
                  g \in {NaN} \cup {Str(x) : x \in GroupExamples
                                        \cup TextsOf(GroupChars, 1, MaxGroupLen)}}
    /\ Start

NextGroup ==
    \/ FirstRun
    \/ SelectGroup

SpecGroup == InitGroup /\ [][NextGroup]_vars

\* status cells: the empty cell and every short text over a space and letters
StatusChars == {" ", "n", "a", "D"}

InitStatus ==
    /\ raw \in {OneRecord(x, Str(<<"0",";","3">>)) :
                  x \in {NaN} \cup {Str(y) : y \in TextsOf(StatusChars, 1, MaxStatusLen)}}
    /\ Start

NextStatus ==
    \/ FirstRun
    \/ SelectStatus

SpecStatus == InitStatus /\ [][NextStatus]_vars

----------------------------------------------------------------------------
(* Properties. *)

\* nothing is deselected: every widget holds all of its options
AllSelected == Deselected(df) = 0

\* a criterion on a text or number column is active
Active(c, values) == c \in df.columns /\ values # {}

\* row r satisfies the criterion on column c: its cell is one of the values
Satisfies(r, c, values) ==
    /\ r[c] # NaN
    /\ \/ r[c].t = "str" /\ r[c].s \in values
       \/ r[c].t = "num" /\ r[c].n \in values

\* row r satisfies every active criterion on status, Year, Month, department
\* and person
PassesScalar(r) ==
    /\ Active(c_status, selected_status) => Satisfies(r, c_status, selected_status)
    /\ Active(c_Year, selected_years) => Satisfies(r, c_Year, selected_years)
    /\ Active(c_Month, selected_months) => Satisfies(r, c_Month, selected_months)
    /\ Active(c_department, selected_dept) => Satisfies(r, c_department, selected_dept)
    /\ Active(c_person, selected_person) => Satisfies(r, c_person, selected_person)

\* the group criterion is active
GroupActive == c_group_list \in df.columns /\ selected_group_ids # <<>>

\* the group_list of row r shares an id with the selected ids
Overlaps(r) == Range(r[c_group_list].l) \cap Range(selected_group_ids) # {}

\* C1: with the default criteria (every option of every widget selected) the
\* filtered table has as many rows as the loaded table.
C1_DefaultKeepsAllRows ==
    (pc = "idle" /\ AllSelected) => Len(df_filtered.rows) = Len(df.rows)

\* C2: a record is in the filtered table iff it satisfies every active
\* criterion at once; a criterion whose column is absent or whose selection is
\* empty excludes nothing.
C2_FilterIsConjunction ==
    pc = "idle" =>
        /\ df_filtered.columns = df.columns
        /\ df_filtered.rows =
              SelectSeq(df.rows,
                 LAMBDA r : PassesScalar(r) /\ (GroupActive => Overlaps(r)))

\* C2 witness: a pass over two or more records with an empty status selection
\* on a table that has a status column, which keeps some records and drops others
C2_Witness ==
    /\ pc = "idle"
    /\ c_status \in df.columns
    /\ selected_status = {}
    /\ Len(df_filtered.rows) > 0
    /\ Len(df_filtered.rows) < Len(df.rows)

\* C3: with a non-empty selection of group ids, a record passes the group
\* criterion iff its group_list shares an id with the selection: a record with
\* group_list [0, 3] is kept for {3} and dropped for {1, 2}.
C3_GroupOverlap ==
    (pc = "idle" /\ GroupActive) =>
        /\ \A i \in 1..Len(df_filtered.rows) : Overlaps(df_filtered.rows[i])
        /\ \A i \in 1..Len(df.rows) :
              (PassesScalar(df.rows[i]) /\ Overlaps(df.rows[i]))
                  => df.rows[i] \in Range(df_filtered.rows)
        /\ \A i \in 1..Len(df.rows) :
              df.rows[i][c_group_list].l = <<0, 3>> =>
                 /\ (Range(selected_group_ids) = {3} /\ PassesScalar(df.rows[i]))
                        => df.rows[i] \in Range(df_filtered.rows)
                 /\ Range(selected_group_ids) = {1, 2}
                        => df.rows[i] \notin Range(df_filtered.rows)

\* C3 witness: the ids {1, 2} are selected and a record with group_list [0, 3]
\* is dropped
C3_Witness ==
    /\ pc = "idle"
    /\ Range(selected_group_ids) = {1, 2}
    /\ \E i \in 1..Len(df.rows) :
          /\ df.rows[i][c_group_list].l = <<0, 3>>
          /\ df.rows[i] \notin Range(df_filtered.rows)

\* C4: after a successful load every status is a non-empty text other than "nan".
C4_StatusNeverEmpty ==
    (pc = "idle" /\ c_status \in df.columns) =>
        \A i \in 1..Len(df.rows) :
            /\ df.rows[i][c_status].t = "str"
            /\ df.rows[i][c_status].s # <<>>
            /\ df.rows[i][c_status].s # s_nan

\* a token is an integer or a dot-decimal number: digits with at most one
\* decimal point
IsNumberToken(tok) ==
    LET c == Strip(tok)
    IN  /\ \E i \in 1..Len(c) : c[i] \in DigitSet
        /\ \A i \in 1..Len(c) : c[i] \in DigitSet \cup {"."}
        /\ Cardinality({i \in 1..Len(c) : c[i] = "."}) <= 1

\* the integers of the number tokens of a group text, in order
NumbersOf(text) ==
    LET k == SelectSeq(Split(text, ";"), IsNumberToken)
    IN  [i \in 1..Len(k) |-> IntOfFloat(k[i])]

\* C5: deriving group_list never aborts the load: the number tokens of the
\* group text are kept as integers in order, every other token is dropped.
C5_GroupListNeverRaises ==
    (pc # "start" /\ raw.file /\ h_Group \in raw.header) =>
        /\ pc = "idle"
        /\ \A i \in 1..Len(raw.rows) :
              df.rows[i][c_group_list].l = NumbersOf(AsStr(raw.rows[i][h_Group]))

\* C6: a sheet with records and no group column loads, and every group_list
\* is empty.
C6_NoGroupColumnLoads ==
    (pc # "start" /\ raw.file /\ h_Group \notin raw.header) =>
        /\ pc = "idle"
        /\ Len(df.rows) = Len(raw.rows)
        /\ \A i \in 1..Len(df.rows) : df.rows[i][c_group_list].l = <<>>

\* the start date cell of record i of the sheet is a text that is no date
UnparseableStart(i) ==
    \E h \in raw.header :
        /\ NormalizeColumn(h) = start_col(df.columns)
        /\ raw.rows[i][h].t = "str"
        /\ ToDatetime(raw.rows[i][h]) = NaN

\* C7: a record with an unparseable start date loads with a null start date,
\* is absent from the timeline, and with the default selections is still in
\* the filtered table behind the count, the times and the raw table.
C7_NullDateRetained ==
    (pc = "idle" /\ AllSelected) =>
        \A i \in 1..Len(df.rows) :
            UnparseableStart(i) =>
                /\ df.rows[i][start_col(df.columns)] = NaN
                /\ df_gantt.t = "table" => df.rows[i] \notin Range(df_gantt.rows)
                /\ df.rows[i] \in Range(df_filtered.rows)

\* the rows of the filtered table whose time is not null
TimedRows == {i \in 1..Len(df_filtered.rows) : df_filtered.rows[i][c_time] # NaN}

\* the sum of the time of the rows of S
RECURSIVE TimeOver(_)
TimeOver(S) ==
    IF S = {} THEN 0
    ELSE LET i == CHOOSE j \in S : TRUE
         IN  df_filtered.rows[i][c_time].n + TimeOver(S \ {i})

\* C8 as claimed: count, totalTime and avgTime are reported for every filtered
\* table, totalTime 0 when there is no time column.
C8_MetricsAlwaysReported ==
    pc = "idle" =>
        /\ metrics.t = "metrics"
        /\ metrics.count = Len(df_filtered.rows)
        /\ metrics.total_hours =
              (IF c_time \in df_filtered.columns THEN TimeOver(TimedRows) ELSE 0)
        /\ Len(df_filtered.rows) = 0 => metrics.avg_hours = Ratio(0, 1)

\* C8 amended: when the table has a time column, count is the number of rows
\* of the filtered table, totalTime the sum of the non-null times of exactly
\* those rows, avgTime their mean (0 when the filtered table is empty, NaN
\* when it has rows but no time); when it has no time column no metric is
\* reported.
C8_MetricsOfFilteredRows ==
    pc = "idle" =>
        IF c_time \in df_filtered.columns
        THEN /\ metrics.t = "metrics"
             /\ metrics.count = Len(df_filtered.rows)
             /\ metrics.total_hours = TimeOver(TimedRows)
             /\ Len(df_filtered.rows) = 0 => metrics.avg_hours = Ratio(0, 1)
             /\ (Len(df_filtered.rows) > 0 /\ TimedRows = {})
                    => metrics.avg_hours = NaN
             /\ TimedRows # {} =>
                    /\ metrics.avg_hours.t = "ratio"
                    /\ metrics.avg_hours.num * Cardinality(TimedRows)
                          = TimeOver(TimedRows) * metrics.avg_hours.den
        ELSE metrics = None

\* C8 witness: a pass with an option deselected that dropped a record and
\* reports the sum and the mean of two or more remaining records
C8_Witness ==
    /\ pc = "idle"
    /\ ~AllSelected
    /\ metrics.t = "metrics"
    /\ Len(df_filtered.rows) < Len(df.rows)
    /\ metrics.count >= 2
    /\ metrics.total_hours > 0
    /\ metrics.avg_hours.t = "ratio"

\* the orderings of a finite set
Orderings(S) ==
    {q \in [1..Cardinality(S) -> S] : \A i, j \in 1..Cardinality(S) :
                                          i # j => q[i] # q[j]}

C10_PassesRepeat ==
    pc = "idle" =>
        /\ df = load_data(raw).df
        /\ (snap.t = "pass" /\ snap.criteria = CurrentCriteria)
              => df_filtered = snap.result

\* C10 witness: the criteria of the remembered pass are back after a pass with
\* other criteria, and the pass drops a record
C10_Witness ==
    /\ pc = "idle"
    /\ snap.t = "pass"
    /\ snap.other
    /\ snap.criteria = CurrentCriteria
    /\ Len(df_filtered.rows) < Len(df.rows)

====
